---------------------------- MODULE Spec2Model ----------------------------
(***************************************************************************)
(* A model of clean_answers.py: the metadata matcher, the block splitter,  *)
(* the block cleaner, the deduplicator and the orchestrating               *)
(* clean_ultimate_output.                                                  *)
(*                                                                         *)
(* A text is a sequence of characters; a character is a one-character      *)
(* string ("MIDDOT" stands for the single character U+00B7).  None is not  *)
(* a text: the cleaner's (None, None) is the record NoneNone.              *)
(***************************************************************************)
EXTENDS Integers, Sequences, FiniteSets, TLC

(***************************************************************************)
(* Characters and Python's str / re character classes, over ASCII.         *)
(***************************************************************************)
MIDDOT == "MIDDOT"

UpperSeq == << "A","B","C","D","E","F","G","H","I","J","K","L","M",
               "N","O","P","Q","R","S","T","U","V","W","X","Y","Z" >>

LowerSeq == << "a","b","c","d","e","f","g","h","i","j","k","l","m",
               "n","o","p","q","r","s","t","u","v","w","x","y","z" >>

Uppers == { UpperSeq[k] : k \in 1..26 }

Lowers == { LowerSeq[k] : k \in 1..26 }

\* [A-Z] and [a-z] under re.IGNORECASE
Letters == Uppers \cup Lowers

\* \d
Digits == { "0","1","2","3","4","5","6","7","8","9" }

\* \s and the characters str.strip() removes
Spaces == { " ", "\t", "\n", "\r" }

\* [ymo] under re.IGNORECASE
AgeUnits == { "y","m","o","Y","M","O" }

\* str.lower() on one character
LowerChar(c) ==
    IF c \in Uppers
    THEN LowerSeq[CHOOSE k \in 1..26 : UpperSeq[k] = c]
    ELSE c

\* str.lower()
lower(text) == [k \in 1..Len(text) |-> LowerChar(text[k])]

\* text[a-1:b] of Python, with 1-based inclusive bounds; empty when a > b
Slice(text, a, b) == IF a > b THEN << >> ELSE SubSeq(text, a, b)

RECURSIVE LStripFrom(_, _)
\* index of the first non-whitespace character at or after k (Len+1 if none)
LStripFrom(text, k) ==
    IF k > Len(text) THEN k
    ELSE IF text[k] \in Spaces THEN LStripFrom(text, k + 1) ELSE k

RECURSIVE RStripFrom(_, _)
\* index of the last non-whitespace character at or before k (0 if none)
RStripFrom(text, k) ==
    IF k < 1 THEN 0
    ELSE IF text[k] \in Spaces THEN RStripFrom(text, k - 1) ELSE k

\* str.strip()
strip(text) == Slice(text, LStripFrom(text, 1), RStripFrom(text, Len(text)))

\* the least and the greatest element of a non-empty set of integers
Min(S) == CHOOSE m \in S : \A n \in S : m <= n

Max(S) == CHOOSE m \in S : \A n \in S : m >= n

\* re.sub(r'\s+', ' ', text): every character outside a whitespace run is
\* kept, and every run leaves one space, at the place of its first character
CollapseSpaces(text) ==
    LET Stays(k) == text[k] \notin Spaces \/ k = 1 \/ text[k - 1] \notin Spaces
        kept     == SelectSeq([k \in 1..Len(text) |-> k], Stays)
    IN  [j \in 1..Len(kept) |->
            IF text[kept[j]] \in Spaces THEN " " ELSE text[kept[j]]]

\* text.find(c) + 1: the 1-based index of the first c, 0 when there is none
find(text, c) ==
    LET at == { k \in 1..Len(text) : text[k] = c }
    IN  IF at = {} THEN 0 ELSE Min(at)

\* text.rfind(c) + 1: the 1-based index of the last c, 0 when there is none
rfind(text, c) ==
    LET at == { k \in 1..Len(text) : text[k] = c }
    IN  IF at = {} THEN 0 ELSE Max(at)

\* text.startswith(lit, k-1)
StartsAt(text, lit, k) ==
    /\ k + Len(lit) - 1 <= Len(text)
    /\ \A j \in 1..Len(lit) : text[k + j - 1] = lit[j]


(***************************************************************************)
(* Program constants.                                                      *)
(***************************************************************************)
\* {5,50} in author_pattern
MinNameRun == 5

MaxNameRun == 50

\* len(question) > 20, len(normalized) > 20
MinQuestion == 20

\* the floor of len(answer) >= 10 written for len(answer) > 10
MinAnswerOffByOne == 10 - 1

\* len(answer) > 10
MinAnswer == 10

\* len(block) > 50
BlockFloor == 50

(***************************************************************************)
(* The Metadata Pattern Matcher: re.finditer(author_pattern, text,         *)
(* re.IGNORECASE) with                                                     *)
(*   [A-Z][^(sep)]{5,50}(sep)(?:\d+[ymo]|[A-Z][a-z]{2} \d+)(sep)?          *)
(* for author_pattern, (sep) being the separator U+00B7.  A match is       *)
(* [start, end], 1-based and inclusive.                                    *)
(***************************************************************************)
\* [^(sep)]{5,50} then the separator, from index k: the run has no
\* separator in it, so it ends at the first separator at or after k, which
\* must leave it 5 to 50 characters; the index of that separator, 0 when
\* the pattern fails
NameRun(text, k) ==
    LET last == IF k + MaxNameRun <= Len(text)
                THEN k + MaxNameRun
                ELSE Len(text)
        seps == { j \in k..last : text[j] = MIDDOT }
    IN  IF seps = {} THEN 0
        ELSE IF Min(seps) - k >= MinNameRun THEN Min(seps) ELSE 0

RECURSIVE DigitsEnd(_, _)
\* \d+ is greedy: the index just after the run of digits that starts at k
DigitsEnd(text, k) ==
    IF k <= Len(text) /\ text[k] \in Digits THEN DigitsEnd(text, k + 1) ELSE k

\* (?:\d+[ymo]|[A-Z][a-z]{2} \d+) at index r: the index of its last
\* character, 0 when neither alternative matches
DateEnd(text, r) ==
    IF r > Len(text) THEN 0
    ELSE IF text[r] \in Digits
    THEN LET e == DigitsEnd(text, r)
         IN  IF e <= Len(text) /\ text[e] \in AgeUnits THEN e ELSE 0
    ELSE IF /\ r + 4 <= Len(text)
            /\ text[r] \in Letters
            /\ text[r + 1] \in Letters
            /\ text[r + 2] \in Letters
            /\ text[r + 3] = " "
            /\ text[r + 4] \in Digits
    THEN DigitsEnd(text, r + 4) - 1
    ELSE 0

\* author_pattern matched at index p: the index of the match's last
\* character, 0 when there is no match at p
MatchEnd(text, p) ==
    IF p > Len(text) \/ text[p] \notin Letters THEN 0
    ELSE LET sep == NameRun(text, p + 1)
         IN  IF sep = 0 THEN 0
             ELSE LET e == DateEnd(text, sep + 1)
                  IN  IF e = 0 THEN 0
                      ELSE IF e + 1 <= Len(text) /\ text[e + 1] = MIDDOT
                           THEN e + 1
                           ELSE e

RECURSIVE FindIterFrom(_, _, _)
\* the scan of finditer from index p on: the leftmost index at or after p
\* where the pattern matches gives the next match, and the scan goes on
\* after that match's end (a match is never empty); starts holds every
\* index where the pattern matches
FindIterFrom(text, starts, p) ==
    LET ahead == { q \in starts : q >= p }
    IN  IF ahead = {} THEN << >>
        ELSE LET q == Min(ahead)
                 e == MatchEnd(text, q)
             IN  << [start |-> q, end |-> e] >>
                     \o FindIterFrom(text, starts, e + 1)

\* list(re.finditer(author_pattern, text, re.IGNORECASE))
finditer(text) ==
    FindIterFrom(text, { q \in 1..Len(text) : MatchEnd(text, q) # 0 }, 1)

RECURSIVE RemoveMatches(_, _, _)
RemoveMatches(text, ms, from) ==
    IF ms = << >> THEN Slice(text, from, Len(text))
    ELSE Slice(text, from, Head(ms).start - 1)
            \o RemoveMatches(text, Tail(ms), Head(ms).end + 1)

\* re.sub(author_pattern, '', text, flags=re.IGNORECASE)
sub_author_pattern(text) == RemoveMatches(text, finditer(text), 1)

(***************************************************************************)
(* The Block Splitter.                                                     *)
(***************************************************************************)
\* the span of match k: text[start_pos:end_pos].strip()
SpanOf(text, matches, k) ==
    LET start_pos == matches[k].start
        end_pos   == IF k + 1 <= Len(matches)
                     THEN matches[k + 1].start - 1
                     ELSE Len(text)
    IN  strip(Slice(text, start_pos, end_pos))

\* len(block) >= 50
KeepBlockAtFloor(block) == Len(block) >= BlockFloor

\* len(block) > 50
KeepBlock(block) == Len(block) > BlockFloor

\* split_multiple_qa_blocks with the text of 0 or 1 match trimmed and held
\* to the floor as the spans are
SplitFloorEverywhere(text) ==
    LET matches == finditer(text)
    IN  IF Len(matches) <= 1 THEN SelectSeq(<< strip(text) >>, KeepBlock)
        ELSE SelectSeq([k \in 1..Len(matches) |-> SpanOf(text, matches, k)],
                       KeepBlock)

split_multiple_qa_blocks(text) ==
    LET matches == finditer(text)
    IN  IF Len(matches) <= 1 THEN << text >>
        ELSE SelectSeq([k \in 1..Len(matches) |-> SpanOf(text, matches, k)],
                       KeepBlock)

(***************************************************************************)
(* The Block Cleaner.                                                      *)
(***************************************************************************)
SkipToContent ==
    << "S","k","i","p"," ","t","o"," ","c","o","n","t","e","n","t" >>

MostRecent == << "M","o","s","t"," ","r","e","c","e","n","t" >>

FollowersLit == << " ","f","o","l","l","o","w","e","r","s" >>

MoreLit == << "M","o","r","e" >>

\* .*? then lit, from index k: the first index at or after k where lit
\* starts, provided no character of stop lies between k and it (the
\* characters . does not match); 0 when there is none
FindLit(text, lit, k, stop) ==
    LET at == { j \in k..Len(text) : StartsAt(text, lit, j) }
    IN  IF at = {} THEN 0
        ELSE IF \E j \in k..(Min(at) - 1) : text[j] \in stop THEN 0
        ELSE Min(at)

\* re.sub(r'^Skip to content.*?Most recent', '', text, flags=re.DOTALL)
StripNavigation(text) ==
    IF ~StartsAt(text, SkipToContent, 1) THEN text
    ELSE LET k == FindLit(text, MostRecent, Len(SkipToContent) + 1, {})
         IN  IF k = 0 THEN text
             ELSE Slice(text, k + Len(MostRecent), Len(text))

\* re.sub(r'^\d+ followers.*?More', '', text)
StripFollowers(text) ==
    LET d == DigitsEnd(text, 1)
    IN  IF d = 1 \/ ~StartsAt(text, FollowersLit, d) THEN text
        ELSE LET k == FindLit(text, MoreLit, d + Len(FollowersLit), {"\n"})
             IN  IF k = 0 THEN text
                 ELSE Slice(text, k + Len(MoreLit), Len(text))

\* (None, None)
NoneNone == [none |-> TRUE]

\* (question, answer)
Candidate(question, answer) ==
    [none |-> FALSE, question |-> question, answer |-> answer]

\* question != answer and len(question) > 20 and len(answer) > 10
Substantial(question, answer) ==
    /\ question # answer
    /\ Len(question) > MinQuestion
    /\ Len(answer) > MinAnswer

\* the branch taken when no author metadata is found
CleanWithoutMetadata(text) ==
    LET last_q_pos == rfind(text, "?")
    IN  IF last_q_pos = 0 THEN NoneNone
        ELSE LET question == strip(Slice(text, 1, last_q_pos))
                 answer   == strip(Slice(text, last_q_pos + 1, Len(text)))
             IN  IF Substantial(question, answer)
                 THEN Candidate(question, answer)
                 ELSE NoneNone

\* the branch taken with the matches found
CleanAfterMetadata(text, matches) ==
    LET last_match == matches[Len(matches)]
        content_after_metadata ==
            strip(Slice(text, last_match.end + 1, Len(text)))
        last_question_mark_pos == rfind(content_after_metadata, "?")
    IN  IF last_question_mark_pos = 0 THEN NoneNone
        ELSE LET question ==
                     strip(Slice(content_after_metadata, 1,
                                 last_question_mark_pos))
                 answer ==
                     strip(sub_author_pattern(
                         strip(Slice(content_after_metadata,
                                     last_question_mark_pos + 1,
                                     Len(content_after_metadata)))))
             IN  IF Substantial(question, answer)
                 THEN Candidate(question, answer)
                 ELSE NoneNone

clean_answer_block(text0) ==
    LET text    == StripFollowers(StripNavigation(text0))
        matches == finditer(text)
    IN  IF matches = << >>
        THEN CleanWithoutMetadata(text)
        ELSE CleanAfterMetadata(text, matches)

(***************************************************************************)
(* The Deduplicator.                                                       *)
(***************************************************************************)
\* dict.get(key, default)
Get(d, key, default) == IF key \in DOMAIN d THEN d[key] ELSE default

\* re.sub(r'\s+', ' ', question.lower().strip())
Normalized(question) == CollapseSpaces(strip(lower(question)))

\* KeepRecord without the test against seen_questions
KeepRecordUnseenOrNot(normalized, seen_questions) ==
    Len(normalized) > MinQuestion

\* normalized not in seen_questions and len(normalized) > 20
KeepRecord(normalized, seen_questions) ==
    /\ normalized \notin seen_questions
    /\ Len(normalized) > MinQuestion

RECURSIVE DedupLoopLastWins(_, _, _)
\* DedupLoop with a later duplicate taking the place of the record kept
DedupLoopLastWins(answers, seen_questions, unique_answers) ==
    IF answers = << >> THEN unique_answers
    ELSE LET ans        == Head(answers)
             normalized == Normalized(Get(ans, "question", << >>))
             Same(k)    ==
                 Normalized(Get(unique_answers[k], "question", << >>))
                     = normalized
         IN  IF Len(normalized) <= MinQuestion
             THEN DedupLoopLastWins(Tail(answers), seen_questions,
                                    unique_answers)
             ELSE IF normalized \in seen_questions
             THEN DedupLoopLastWins(
                      Tail(answers), seen_questions,
                      [k \in 1..Len(unique_answers) |->
                          IF Same(k) THEN ans ELSE unique_answers[k]])
             ELSE DedupLoopLastWins(Tail(answers),
                                    seen_questions \cup {normalized},
                                    Append(unique_answers, ans))

RECURSIVE DedupLoop(_, _, _)
\* the for loop of deduplicate_answers over the rest of answers
DedupLoop(answers, seen_questions, unique_answers) ==
    IF answers = << >> THEN unique_answers
    ELSE LET ans        == Head(answers)
             question   == Get(ans, "question", << >>)
             normalized == Normalized(question)
         IN  IF KeepRecord(normalized, seen_questions)
             THEN DedupLoop(Tail(answers),
                            seen_questions \cup {normalized},
                            Append(unique_answers, ans))
             ELSE DedupLoop(Tail(answers), seen_questions, unique_answers)

\* deduplicate_answers with the loop starting at the second record
DeduplicateFromSecond(answers) ==
    DedupLoop(IF answers = << >> THEN << >> ELSE Tail(answers), {}, << >>)

deduplicate_answers(answers) == DedupLoop(answers, {}, << >>)


(***************************************************************************)
(* Texts of the inputs.  In the comments (sep) is the separator U+00B7.    *)
(***************************************************************************)
\* 'Jane Doe(sep)5y(sep)'
SigJane ==
    << "J","a","n","e"," ","D","o","e",MIDDOT,"5","y",MIDDOT >>

\* 'Jane Doe B.Sc.(sep)5y(sep)'
SigJaneBSc ==
    << "J","a","n","e"," ","D","o","e"," ","B",".","S","c",".",MIDDOT,"5",
       "y",MIDDOT >>

\* 'John Roe(sep)2mo(sep)'
SigJohn ==
    << "J","o","h","n"," ","R","o","e",MIDDOT,"2","m","o",MIDDOT >>

\* 'John Roe(sep)2y(sep)'
SigJohnY ==
    << "J","o","h","n"," ","R","o","e",MIDDOT,"2","y",MIDDOT >>

\* 'Ann Lee M.D.(sep)Jan 15(sep)'
SigAnn ==
    << "A","n","n"," ","L","e","e"," ","M",".","D",".",MIDDOT,"J","a","n",
       " ","1","5",MIDDOT >>

\* 'What is the speed of light?'
QLight ==
    << "W","h","a","t"," ","i","s"," ","t","h","e"," ","s","p","e","e","d",
       " ","o","f"," ","l","i","g","h","t","?" >>

\* 'WHAT IS  THE SPEED OF LIGHT?'
QLightShout ==
    << "W","H","A","T"," ","I","S"," "," ","T","H","E"," ","S","P","E","E",
       "D"," ","O","F"," ","L","I","G","H","T","?" >>

\* 'It is approximately 299,792 kilometers per second in vacuum.'
ALight ==
    << "I","t"," ","i","s"," ","a","p","p","r","o","x","i","m","a","t","e",
       "l","y"," ","2","9","9",",","7","9","2"," ","k","i","l","o","m","e",
       "t","e","r","s"," ","p","e","r"," ","s","e","c","o","n","d"," ","i",
       "n"," ","v","a","c","u","u","m","." >>

\* 'About 300,000 km/s.'
ALightShort ==
    << "A","b","o","u","t"," ","3","0","0",",","0","0","0"," ","k","m","/",
       "s","." >>

\* 'What is the boiling point of water?'
QWater ==
    << "W","h","a","t"," ","i","s"," ","t","h","e"," ","b","o","i","l","i",
       "n","g"," ","p","o","i","n","t"," ","o","f"," ","w","a","t","e","r",
       "?" >>

\* 'It is one hundred degrees Celsius at sea level.'
AWater ==
    << "I","t"," ","i","s"," ","o","n","e"," ","h","u","n","d","r","e","d",
       " ","d","e","g","r","e","e","s"," ","C","e","l","s","i","u","s"," ",
       "a","t"," ","s","e","a"," ","l","e","v","e","l","." >>

\* 'Why   is    it     so?'
QSpaced ==
    << "W","h","y"," "," "," ","i","s"," "," "," "," ","i","t"," "," "," ",
       " "," ","s","o","?" >>

\* 'Is it so?'
QShort ==
    << "I","s"," ","i","t"," ","s","o","?" >>

\* 'Yes it is.'
ATen ==
    << "Y","e","s"," ","i","t"," ","i","s","." >>

\* 'Short'
ShortText ==
    << "S","h","o","r","t" >>

\* 'Q1?'
Q1 ==
    << "Q","1","?" >>

\* 'A1 text long enough.'
A1 ==
    << "A","1"," ","t","e","x","t"," ","l","o","n","g"," ","e","n","o","u",
       "g","h","." >>

\* 'Q2?'
Q2 ==
    << "Q","2","?" >>

\* 'A2 text long enough.'
A2 ==
    << "A","2"," ","t","e","x","t"," ","l","o","n","g"," ","e","n","o","u",
       "g","h","." >>

\* 'Skip to content\nHome\nMost recent'
NavPreamble ==
    << "S","k","i","p"," ","t","o"," ","c","o","n","t","e","n","t","\n","H",
       "o","m","e","\n","M","o","s","t"," ","r","e","c","e","n","t" >>

\* '12 followers 3 following More'
FollowersPreamble ==
    << "1","2"," ","f","o","l","l","o","w","e","r","s"," ","3"," ","f","o",
       "l","l","o","w","i","n","g"," ","M","o","r","e" >>

\* '2025-01-01T00:00:00'
Stamp ==
    << "2","0","2","5","-","0","1","-","0","1","T","0","0",":","0","0",":",
       "0","0" >>

\* "Is light fast or slow? What is the speed of light?"
QTwo ==
    << "I","s"," ","l","i","g","h","t"," ","f","a","s","t"," ","o","r"," ",
       "s","l","o","w","?"," ","W","h","a","t"," ","i","s"," ","t","h","e",
       " ","s","p","e","e","d"," ","o","f"," ","l","i","g","h","t","?" >>

\* "1+1=2? 2+2=4. 3+3=6. 4+4=8. 5+5=10. 66": 38 characters, none a letter
\* or the separator
Filler38 ==
    << "1","+","1","=","2","?"," ","2","+","2","=","4","."," ","3","+","3",
       "=","6","."," ","4","+","4","=","8","."," ","5","+","5","=","1","0",
       "."," ","6","6" >>

\* "1+1=2? 2+2=4. 3+3=6. 4+4=8. 5+5=10. 667": 39 characters, none a
\* letter or the separator
Filler39 ==
    << "1","+","1","=","2","?"," ","2","+","2","=","4","."," ","3","+","3",
       "=","6","."," ","4","+","4","=","8","."," ","5","+","5","=","1","0",
       "."," ","6","6","7" >>

(***************************************************************************)
(* Bounds of the model.                                                    *)
(***************************************************************************)
\* the longest data['answers'] the input artifact holds
MaxBlobs == 2

\* the longest list handed to deduplicate_answers on its own
MaxRecords == 3

\* the most pieces concatenated into one text handed to the splitter
MaxPieces == 2

(***************************************************************************)
(* The input artifacts.  A dict is a record whose domain is its keys, so   *)
(* a missing key is a missing field.                                       *)
(***************************************************************************)
Empty == << >>

\* one Q&A unit as the page shows it: signature, question, answer
Unit(sig, question, answer) ==
    [sig |-> sig, question |-> question, answer |-> answer]

UnitText(u) == u.sig \o u.question \o << " " >> \o u.answer

UnitLight == Unit(SigJane, QLight, ALight)

UnitWater == Unit(SigJohn, QWater, AWater)

UnitWaterY == Unit(SigJohnY, QWater, AWater)

UnitQ1 == Unit(SigJane, Q1, A1)

UnitQ2 == Unit(SigJohn, Q2, A2)

\* the pairs of units that are concatenated into one blob
UnitPairs ==
    { << UnitLight, UnitWater >>, << UnitLight, UnitWaterY >>,
      << UnitQ1, UnitQ2 >> }

\* an entry of data['answers'] as extract_answers_improved appends it
Blob(question, answer) ==
    [question |-> question, answer |-> answer, extracted_at |-> Stamp]

TwoUnitBlob(pair) == Blob(UnitText(pair[1]) \o UnitText(pair[2]), Empty)

ScenarioA == Blob(SigJaneBSc \o QLight \o << " " >> \o ALight, Empty)

ScenarioC == Blob(ShortText, Empty)

SignaturesOnly == Blob(SigJane \o SigJohnY, Empty)

Shouted == Blob(QLightShout \o << " " >> \o ALightShort, Empty)

WellFormed == Blob(QWater, AWater)

Spaced == Blob(QSpaced \o << " " >> \o ALightShort, Empty)

WithPreambles ==
    Blob(NavPreamble \o FollowersPreamble \o SigAnn \o QWater
            \o << " " >> \o AWater, Empty)

TenCharAnswer == Blob(QWater \o << " " >> \o ATen, Empty)

NoQuestionKey == [answer |-> AWater, extracted_at |-> Stamp]

Blobs ==
    { TwoUnitBlob(pair) : pair \in UnitPairs }
        \cup { ScenarioA, ScenarioC, SignaturesOnly, Shouted, WellFormed,
               Spaced, WithPreambles, TenCharAnswer, NoQuestionKey }

\* the sequences over S of length at most n
SeqUpTo(S, n) == UNION { [1..m -> S] : m \in 0..n }

Profile == [user_id |-> "jane-doe", nb_answers_claimed |-> "2"]

Stats == [scrolls_performed |-> 3]

\* the artifacts json.load may return: whole, without 'profile', and
\* without 'answers'
Inputs ==
    { [profile |-> Profile, scraping_stats |-> Stats, answers |-> bs] :
          bs \in SeqUpTo(Blobs, MaxBlobs) }
        \cup { [scraping_stats |-> Stats, answers |-> bs] :
                   bs \in SeqUpTo(Blobs, MaxBlobs) }
        \cup { [profile |-> Profile, scraping_stats |-> Stats] }

\* the records handed to deduplicate_answers on its own
DedupRecords ==
    { [question |-> QLight, answer |-> ALight, extracted_at |-> Stamp],
      [question |-> QLightShout \o << " " >>, answer |-> ALightShort,
       extracted_at |-> Stamp],
      [question |-> QLight, answer |-> ALightShort, extracted_at |-> Stamp],
      [question |-> QWater, answer |-> AWater, extracted_at |-> Stamp],
      [question |-> QShort, answer |-> ATen, extracted_at |-> Stamp],
      [question |-> QSpaced, answer |-> ALightShort, extracted_at |-> Stamp],
      [answer |-> AWater, extracted_at |-> Stamp] }

\* a span of exactly 50 characters: "Jane Doe(sep)5y(sep)" and Filler38
Span50 == SigJane \o Filler38

\* a span of 52 characters, 51 once trimmed: "John Roe(sep)2y(sep)",
\* Filler39 and a space
Span51 == SigJohnY \o Filler39 \o << " " >>

\* a short signed question between two spaces
SignedShort == << " " >> \o SigJane \o QShort \o << " " >>

\* the pieces that are concatenated into the texts handed to
\* split_multiple_qa_blocks and clean_answer_block on their own
Pieces ==
    { UnitText(Unit(SigJaneBSc, QLight, ALight)),
      QTwo \o << " " >> \o ALightShort,
      Span50,
      Span51,
      ShortText,
      SignedShort,
      UnitText(UnitWater),
      NavPreamble \o FollowersPreamble,
      ALight,
      QWater,
      SigAnn }

RECURSIVE Concat(_)
\* ''.join(pieces)
Concat(pieces) ==
    IF pieces = << >> THEN << >> ELSE Head(pieces) \o Concat(Tail(pieces))

\* the texts handed to split_multiple_qa_blocks on its own
Texts == { Concat(ps) : ps \in SeqUpTo(Pieces, MaxPieces) }

(***************************************************************************)
(* The state: clean_ultimate_output's locals and its position, the        *)
(* argument and the results of deduplicate_answers called on its own, and  *)
(* the argument and the results of the splitter and the cleaner called on  *)
(* their own.                                                              *)
(***************************************************************************)
VARIABLES
    pc,               \* the position in clean_ultimate_output
    data,             \* json.load(f)
    original_count,
    cleaned_answers,
    skipped,
    split_count,
    i,                \* the blobs whose iteration is over
    ans,              \* the blob of the current iteration
    blocks,
    unique_answers,
    result,
    error,            \* the exception that ended the run
    dd_pc,            \* the position of the caller of deduplicate_answers
    dd_answers,       \* its argument
    dd_unique,        \* what the first call returned
    dd_twice,         \* what the call on dd_unique returned
    tx_pc,            \* the position of the caller of the splitter
    tx_text,          \* the text handed to split_multiple_qa_blocks
    tx_blocks,        \* what split_multiple_qa_blocks returned
    tx_cleaned        \* what clean_answer_block returned for each block

vars == << pc, data, original_count, cleaned_answers, skipped, split_count,
           i, ans, blocks, unique_answers, result, error,
           dd_pc, dd_answers, dd_unique, dd_twice,
           tx_pc, tx_text, tx_blocks, tx_cleaned >>

pipeline_vars == << pc, data, original_count, cleaned_answers, skipped,
                    split_count, i, ans, blocks, unique_answers, result,
                    error >>

dedup_vars == << dd_pc, dd_answers, dd_unique, dd_twice >>

text_vars == << tx_pc, tx_text, tx_blocks, tx_cleaned >>

\* a local that is not bound yet
Unbound == [unbound |-> TRUE]

PipelineAt(position, input) ==
    /\ pc = position
    /\ data = input
    /\ original_count = 0
    /\ cleaned_answers = << >>
    /\ skipped = 0
    /\ split_count = 0
    /\ i = 0
    /\ ans = Unbound
    /\ blocks = << >>
    /\ unique_answers = << >>
    /\ result = Unbound
    /\ error = "none"

DedupAt(position, input) ==
    /\ dd_pc = position
    /\ dd_answers = input
    /\ dd_unique = << >>
    /\ dd_twice = << >>

TextAt(position, input) ==
    /\ tx_pc = position
    /\ tx_text = input
    /\ tx_blocks = << >>
    /\ tx_cleaned = << >>

(***************************************************************************)
(* clean_ultimate_output                                                   *)
(***************************************************************************)
\* ValidatorAccepts with the floor put on the normalized question
ValidatorOnNormalized(question, answer) ==
    /\ question # << >>
    /\ answer # << >>
    /\ Len(Normalized(question)) > MinQuestion
    /\ Len(answer) > MinAnswer
    /\ question # answer

\* question and answer and len(question) > 20 and len(answer) > 10
\* and question != answer
ValidatorAccepts(question, answer) ==
    /\ question # << >>
    /\ answer # << >>
    /\ Len(question) > MinQuestion
    /\ Len(answer) > MinAnswer
    /\ question # answer

\* one iteration of "for block in blocks": acc holds cleaned_answers and
\* skipped
ProcessBlock(acc, block, blob) ==
    LET cleaned == clean_answer_block(block)
    IN  IF cleaned.none
        THEN [acc EXCEPT !.skipped = @ + 1]
        ELSE IF ValidatorAccepts(cleaned.question, cleaned.answer)
        THEN [acc EXCEPT !.cleaned_answers =
                 Append(@, [question     |-> cleaned.question,
                            answer       |-> cleaned.answer,
                            extracted_at |-> Get(blob, "extracted_at", Stamp)])]
        ELSE [acc EXCEPT !.skipped = @ + 1]

RECURSIVE ProcessBlocksFrom(_, _, _)
\* "for block in blocks" over the blocks left
ProcessBlocksFrom(acc, left, blob) ==
    IF left = << >> THEN acc
    ELSE ProcessBlocksFrom(ProcessBlock(acc, Head(left), blob), Tail(left), blob)

\* with open(input_file) ...; original_count = len(data['answers'])
ReadInput ==
    /\ pc = "read"
    /\ IF "answers" \in DOMAIN data
       THEN /\ original_count' = Len(data.answers)
            /\ pc' = "loop"
            /\ error' = error
       ELSE /\ error' = "KeyError: 'answers'"
            /\ pc' = "failed"
            /\ original_count' = original_count
    /\ UNCHANGED << data, cleaned_answers, skipped, split_count, i, ans,
                    blocks, unique_answers, result >>
    /\ UNCHANGED dedup_vars
    /\ UNCHANGED text_vars

\* the head of an iteration of "for i, ans in enumerate(data['answers'])":
\* the blob is split and a split blob is counted
SplitBlob ==
    /\ pc = "loop"
    /\ i < original_count
    /\ ans' = data.answers[i + 1]
    /\ blocks' = split_multiple_qa_blocks(Get(ans', "question", Empty))
    /\ split_count' = IF Len(blocks') > 1 THEN split_count + 1 ELSE split_count
    /\ pc' = "blocks"
    /\ UNCHANGED << data, original_count, cleaned_answers, skipped, i,
                    unique_answers, result, error >>
    /\ UNCHANGED dedup_vars
    /\ UNCHANGED text_vars

\* the rest of the iteration: every block is cleaned and validated
ProcessBlocks ==
    /\ pc = "blocks"
    /\ LET acc == ProcessBlocksFrom(
                      [cleaned_answers |-> cleaned_answers,
                       skipped |-> skipped], blocks, ans)
       IN  /\ cleaned_answers' = acc.cleaned_answers
           /\ skipped' = acc.skipped
    /\ i' = i + 1
    /\ pc' = "loop"
    /\ UNCHANGED << data, original_count, split_count, ans, blocks,
                    unique_answers, result, error >>
    /\ UNCHANGED dedup_vars
    /\ UNCHANGED text_vars

\* unique_answers = deduplicate_answers(cleaned_answers)
Deduplicate ==
    /\ pc = "loop"
    /\ i = original_count
    /\ unique_answers' = deduplicate_answers(cleaned_answers)
    /\ pc' = "prepare"
    /\ UNCHANGED << data, original_count, cleaned_answers, skipped,
                    split_count, i, ans, blocks, result, error >>
    /\ UNCHANGED dedup_vars
    /\ UNCHANGED text_vars

\* {**data.get('scraping_stats', {}), 'original_extractions': ..., ...}
ScrapingStats ==
    LET base  == Get(data, "scraping_stats", Empty)
        added == [original_extractions |-> original_count,
                  after_cleaning       |-> Len(cleaned_answers),
                  after_deduplication  |-> Len(unique_answers)]
    IN  [k \in DOMAIN base \cup DOMAIN added |->
            IF k \in DOMAIN added THEN added[k] ELSE base[k]]

\* result = {'profile': ..., 'scraping_stats': ..., 'answers': ...}
PrepareOutput ==
    /\ pc = "prepare"
    /\ result' = [profile        |-> Get(data, "profile", Empty),
                  scraping_stats |-> ScrapingStats,
                  answers        |-> unique_answers]
    /\ pc' = "save"
    /\ UNCHANGED << data, original_count, cleaned_answers, skipped,
                    split_count, i, ans, blocks, unique_answers, error >>
    /\ UNCHANGED dedup_vars
    /\ UNCHANGED text_vars

\* user_id = data['profile'].get('user_id', 'unknown'), the two files are
\* written and result is returned
SaveOutput ==
    /\ pc = "save"
    /\ IF "profile" \in DOMAIN data
       THEN /\ pc' = "done"
            /\ error' = error
       ELSE /\ error' = "KeyError: 'profile'"
            /\ pc' = "failed"
    /\ UNCHANGED << data, original_count, cleaned_answers, skipped,
                    split_count, i, ans, blocks, unique_answers, result >>
    /\ UNCHANGED dedup_vars
    /\ UNCHANGED text_vars

Init ==
    /\ \E input \in Inputs : PipelineAt("read", input)
    /\ DedupAt("idle", << >>)
    /\ TextAt("idle", Empty)

Next ==
    \/ ReadInput
    \/ SplitBlob
    \/ ProcessBlocks
    \/ Deduplicate
    \/ PrepareOutput
    \/ SaveOutput

Spec == Init /\ [][Next]_vars

(***************************************************************************)
(* deduplicate_answers called on its own, and then on what it returned.    *)
(***************************************************************************)
DedupCall ==
    /\ dd_pc = "call"
    /\ dd_unique' = deduplicate_answers(dd_answers)
    /\ dd_pc' = "returned"
    /\ UNCHANGED << dd_answers, dd_twice >>
    /\ UNCHANGED pipeline_vars
    /\ UNCHANGED text_vars

DedupAgain ==
    /\ dd_pc = "returned"
    /\ dd_twice' = deduplicate_answers(dd_unique)
    /\ dd_pc' = "again"
    /\ UNCHANGED << dd_answers, dd_unique >>
    /\ UNCHANGED pipeline_vars
    /\ UNCHANGED text_vars

InitDedup ==
    /\ \E input \in SeqUpTo(DedupRecords, MaxRecords) : DedupAt("call", input)
    /\ PipelineAt("idle", Empty)
    /\ TextAt("idle", Empty)

NextDedup ==
    \/ DedupCall
    \/ DedupAgain

SpecDedup == InitDedup /\ [][NextDedup]_vars

(***************************************************************************)
(* split_multiple_qa_blocks called on its own, and then clean_answer_block *)
(* on every block it returned, as the loop of clean_ultimate_output does.  *)
(***************************************************************************)
\* blocks = split_multiple_qa_blocks(text)
SplitCall ==
    /\ tx_pc = "call"
    /\ tx_blocks' = split_multiple_qa_blocks(tx_text)
    /\ tx_pc' = "split"
    /\ UNCHANGED << tx_text, tx_cleaned >>
    /\ UNCHANGED pipeline_vars
    /\ UNCHANGED dedup_vars

\* for block in blocks: question, answer = clean_answer_block(block)
CleanCall ==
    /\ tx_pc = "split"
    /\ tx_cleaned' = [k \in 1..Len(tx_blocks) |->
                         clean_answer_block(tx_blocks[k])]
    /\ tx_pc' = "cleaned"
    /\ UNCHANGED << tx_text, tx_blocks >>
    /\ UNCHANGED pipeline_vars
    /\ UNCHANGED dedup_vars

InitText ==
    /\ \E input \in Texts : TextAt("call", input)
    /\ PipelineAt("idle", Empty)
    /\ DedupAt("idle", << >>)

NextText ==
    \/ SplitCall
    \/ CleanCall

SpecText == InitText /\ [][NextText]_vars


(***************************************************************************)
(* Properties of deduplicate_answers, under SpecDedup.                     *)
(***************************************************************************)
\* the key of a record as the specification words it: the question
\* lower-cased, trimmed, its whitespace runs collapsed to one space
KeyOf(record) == CollapseSpaces(strip(lower(Get(record, "question", Empty))))

DedupReturned == dd_pc \in { "returned", "again" }

\* C1: the output of deduplicate_answers holds no two records, at distinct
\* places, whose normalized question texts are equal.
C1_DistinctKeys ==
    DedupReturned =>
        \A a, b \in 1..Len(dd_unique) :
            a # b => KeyOf(dd_unique[a]) # KeyOf(dd_unique[b])

\* a call that dropped a record whose question differs from the kept one's
\* only by case and whitespace, and kept two records
C1_Witness ==
    /\ DedupReturned
    /\ Len(dd_unique) >= 2
    /\ \E a, b \in 1..Len(dd_answers) :
          /\ a < b
          /\ KeyOf(dd_answers[a]) = KeyOf(dd_answers[b])
          /\ Get(dd_answers[a], "question", Empty)
                 # Get(dd_answers[b], "question", Empty)
          /\ dd_answers[a] \in { dd_unique[k] : k \in 1..Len(dd_unique) }
          /\ dd_answers[b] \notin { dd_unique[k] : k \in 1..Len(dd_unique) }

\* the places of answers whose record has the key
PlacesOf(answers, key) == { k \in 1..Len(answers) : KeyOf(answers[k]) = key }

\* C2: the output is a subsequence of the input, in input order, and each
\* record of it is, unchanged, the first input record with its key.
C2_FirstSeenSubsequence ==
    DedupReturned =>
        /\ \A k \in 1..Len(dd_unique) :
              /\ PlacesOf(dd_answers, KeyOf(dd_unique[k])) # {}
              /\ dd_unique[k]
                     = dd_answers[Min(PlacesOf(dd_answers, KeyOf(dd_unique[k])))]
        /\ \A k \in 2..Len(dd_unique) :
              Min(PlacesOf(dd_answers, KeyOf(dd_unique[k - 1])))
                  < Min(PlacesOf(dd_answers, KeyOf(dd_unique[k])))

\* a call whose input holds two records with one key and different
\* answers, the first of them kept, with a record of another key kept
\* after it
C2_Witness ==
    /\ DedupReturned
    /\ Len(dd_unique) = 2
    /\ \E a, b, c \in 1..Len(dd_answers) :
          /\ a < b
          /\ b < c
          /\ KeyOf(dd_answers[a]) = KeyOf(dd_answers[b])
          /\ dd_answers[a].answer # dd_answers[b].answer
          /\ dd_unique = << dd_answers[a], dd_answers[c] >>

\* C3: deduplicate_answers applied to its own output returns that output.
C3_Idempotent ==
    dd_pc = "again" => dd_twice = dd_unique

\* a second call made on an output that the first call had shortened
C3_Witness ==
    /\ dd_pc = "again"
    /\ Len(dd_unique) >= 2
    /\ Len(dd_unique) < Len(dd_answers)
    /\ dd_twice = dd_unique


(***************************************************************************)
(* Properties of clean_ultimate_output, under Spec.                        *)
(***************************************************************************)
\* the elements of a sequence
Range(seq) == { seq[k] : k \in 1..Len(seq) }

\* an iteration of the blob loop has just ended, ans being its blob
BlobDone == pc = "loop" /\ i >= 1

\* the step that cleans and validates the blocks of the current blob
BlockLoopStep == pc = "blocks" /\ pc' = "loop"

\* C4: every record appended to cleaned_answers, and so every record of the
\* corpus, has question != answer, a question longer than 20 characters and
\* an answer longer than 10 characters.
C4_RecordsHaveSubstance ==
    \A r \in Range(cleaned_answers) \cup Range(unique_answers) :
        /\ r.question # r.answer
        /\ Len(r.question) > 20
        /\ Len(r.answer) > 10

\* after a blob that gave a record, a blob whose answer is exactly 10
\* characters long has been turned down
C4_Witness ==
    /\ BlobDone
    /\ ans = TenCharAnswer
    /\ Len(cleaned_answers) >= 1
    /\ skipped >= 1

\* C5: split_multiple_qa_blocks returns a non-empty sequence of blocks for
\* every text.
C5_SplitNonEmpty ==
    pc = "blocks" => Len(blocks) >= 1

\* C6: a blob that contributes no record increments skipped at least once.
C6_BarrenBlobCounted ==
    [][BlockLoopStep =>
          \/ Len(cleaned_answers') > Len(cleaned_answers)
          \/ skipped' > skipped]_vars

\* C7: a run that fails on a missing structural field fails before any
\* blob has been split, cleaned or validated.
C7_FailsBeforeProcessing ==
    pc = "failed" => (i = 0 /\ ans = Unbound /\ skipped = 0)

\* a blob whose 'question' is a substantial question ending in "?" and
\* whose 'answer' is a substantial, different answer
IsWellFormed(blob) ==
    /\ { "question", "answer" } \subseteq DOMAIN blob
    /\ Len(blob.question) > 20
    /\ blob.question[Len(blob.question)] = "?"
    /\ Len(blob.answer) > 10
    /\ blob.answer # blob.question

\* C8: a blob that is already well-formed yields a record carrying its
\* 'question' and its 'answer'.
C8_WellFormedPassedThrough ==
    (BlobDone /\ IsWellFormed(ans)) =>
        \E r \in Range(cleaned_answers) :
            r.question = ans.question /\ r.answer = ans.answer

\* what the cleaner returns for each block of the current blob
Candidates == [k \in 1..Len(blocks) |-> clean_answer_block(blocks[k])]

\* the record appended for an accepted candidate of the current blob
RecordOf(c) ==
    [question     |-> c.question,
     answer       |-> c.answer,
     extracted_at |-> Get(ans, "extracted_at", Stamp)]

RecordsOf(cs) == [k \in 1..Len(cs) |-> RecordOf(cs[k])]

\* acceptance with the floor on the normalized question
AcceptsOnNormalized(c) ==
    /\ ~c.none
    /\ Len(CollapseSpaces(strip(lower(c.question)))) > 20
    /\ Len(c.answer) > 10
    /\ c.question # c.answer

\* acceptance with the floor on the question as the cleaner returned it
AcceptsOnReturned(c) ==
    /\ ~c.none
    /\ Len(c.question) > 20
    /\ Len(c.answer) > 10
    /\ c.question # c.answer

\* C9, as stated: the validator accepts a candidate if and only if both
\* parts are non-null, the normalized question is longer than 20
\* characters, the answer is longer than 10 characters and the two differ.
C9_AcceptsIffNormalizedLong ==
    [][BlockLoopStep =>
          cleaned_answers' =
              cleaned_answers
                  \o RecordsOf(SelectSeq(Candidates, AcceptsOnNormalized))]_vars

\* C9, amended: the validator accepts a candidate if and only if both parts
\* are non-null, the question as the cleaner returned it (trimmed, neither
\* lower-cased nor whitespace-collapsed) is longer than 20 characters, the
\* answer is longer than 10 characters and the two differ.
C9_AcceptsIffReturnedLong ==
    [][BlockLoopStep =>
          cleaned_answers' =
              cleaned_answers
                  \o RecordsOf(SelectSeq(Candidates, AcceptsOnReturned))]_vars

\* a record accepted though its normalized question has at most 20
\* characters, after a candidate that was turned down
C9_Witness ==
    /\ BlobDone
    /\ skipped >= 1
    /\ Len(cleaned_answers) >= 1
    /\ LET r == cleaned_answers[Len(cleaned_answers)]
       IN  /\ r.question = QSpaced
           /\ Len(r.question) > 20
           /\ Len(CollapseSpaces(strip(lower(r.question)))) <= 20

\* a unit whose question and answer pass the substance floor
IsSubstantialUnit(u) == Len(u.question) > 20 /\ Len(u.answer) > 10

\* C10: a blob made of two concatenated units, each a signature, a
\* question ending in "?" and an answer, is split into exactly 2 blocks,
\* each beginning at its own unit's signature, and yields exactly 2
\* records, one per unit.
C10_TwoUnitsTwoRecords ==
    \A pair \in UnitPairs :
        (/\ IsSubstantialUnit(pair[1])
         /\ IsSubstantialUnit(pair[2])
         /\ ans = TwoUnitBlob(pair)) =>
            /\ pc = "blocks" =>
                  /\ Len(blocks) = 2
                  /\ StartsAt(blocks[1], pair[1].sig, 1)
                  /\ StartsAt(blocks[2], pair[2].sig, 1)
            /\ (BlobDone /\ i = 1) =>
                  /\ Len(cleaned_answers) = 2
                  /\ \A k \in 1..2 :
                        /\ cleaned_answers[k].question = pair[k].question
                        /\ cleaned_answers[k].answer = pair[k].answer


(***************************************************************************)
(* Properties of split_multiple_qa_blocks and clean_answer_block, under    *)
(* SpecText.                                                               *)
(***************************************************************************)
SplitReturned == tx_pc \in { "split", "cleaned" }

\* the number of metadata matches the Matcher finds in the text
MatchCount(text) == Len(finditer(text))

\* C11: for a text in which the Matcher finds 0 or exactly 1 metadata
\* match, split_multiple_qa_blocks returns exactly one block, equal to the
\* text unchanged, whatever the length of the text.
C11_FewMatchesOneBlockUnchanged ==
    (SplitReturned /\ MatchCount(tx_text) <= 1) =>
        /\ Len(tx_blocks) = 1
        /\ tx_blocks[1] = tx_text

\* a text of one match, under the floor and with spaces around it, has
\* been returned as it is
C11_Witness ==
    /\ SplitReturned
    /\ MatchCount(tx_text) = 1
    /\ Len(tx_text) < 50
    /\ strip(tx_text) # tx_text
    /\ tx_blocks = << tx_text >>

CleanReturned == tx_pc = "cleaned"

\* the text of a block that remains for the question and the answer: the
\* whole preamble-stripped text when it holds no metadata, otherwise the
\* text after the end of the last metadata match
Remaining(block) ==
    LET stripped == StripFollowers(StripNavigation(block))
        matches  == finditer(stripped)
    IN  IF matches = << >> THEN stripped
        ELSE Slice(stripped, matches[Len(matches)].end + 1, Len(stripped))

\* the places of "?" in a text
QuestionMarks(text) == { j \in 1..Len(text) : text[j] = "?" }

\* what the cleaner returned for a block is anchored on the last "?" of the
\* block's remaining text
AnchoredOnLast(block, cleaned) ==
    LET rest  == Remaining(block)
        marks == QuestionMarks(rest)
    IN  IF marks = {} THEN cleaned = NoneNone
        ELSE ~cleaned.none =>
                 /\ cleaned.question = strip(Slice(rest, 1, Max(marks)))
                 /\ cleaned.answer =
                        strip(Slice(rest, Max(marks) + 1, Len(rest)))
                 /\ cleaned.question[Len(cleaned.question)] = "?"
                 /\ QuestionMarks(cleaned.answer) = {}

\* C12: clean_answer_block anchors on the last "?" of the remaining text:
\* a returned question is the trimmed text up to and including that "?", a
\* returned answer is the trimmed text after it, so that every returned
\* question ends with "?" and no returned answer holds one; a remaining
\* text without "?" gives (None, None).
C12_AnchoredOnLastQuestionMark ==
    CleanReturned =>
        \A k \in 1..Len(tx_blocks) :
            AnchoredOnLast(tx_blocks[k], tx_cleaned[k])

\* a block with metadata and with two "?" or more after it has been
\* cleaned into a question and an answer
C12_Witness ==
    /\ CleanReturned
    /\ \E k \in 1..Len(tx_blocks) :
           /\ finditer(tx_blocks[k]) # << >>
           /\ Cardinality(QuestionMarks(Remaining(tx_blocks[k]))) >= 2
           /\ ~tx_cleaned[k].none

\* the span of match k as the text holds it: from the start of the match to
\* the start of the next one, or to the end of the text for the last match
RawSpan(text, k) ==
    LET matches == finditer(text)
    IN  Slice(text, matches[k].start,
              IF k < Len(matches) THEN matches[k + 1].start - 1
              ELSE Len(text))

RawSpans(text) == [k \in 1..MatchCount(text) |-> RawSpan(text, k)]

TrimmedSpans(text) == [k \in 1..MatchCount(text) |-> strip(RawSpan(text, k))]

AtLeastFifty(span) == Len(span) >= 50

OverFifty(span) == Len(span) > 50

\* C13 as stated: for a text with two or more metadata matches,
\* split_multiple_qa_blocks returns, in match order, the spans from each
\* match's start to the next match's start, discarding a span only if it
\* is under 50 characters long (a span of exactly 50 characters is kept).
C13_SpansKeptFromFifty ==
    (SplitReturned /\ MatchCount(tx_text) >= 2) =>
        tx_blocks = SelectSeq(RawSpans(tx_text), AtLeastFifty)

\* C13 amended: for a text with two or more metadata matches,
\* split_multiple_qa_blocks returns, in match order, the spans from each
\* match's start to the next match's start, each trimmed of the whitespace
\* around it, and it discards a span if and only if its trimmed length is
\* at most 50 characters (a trimmed span of exactly 50 characters is
\* discarded, one of 51 is kept).
C13_TrimmedSpansKeptOverFifty ==
    (SplitReturned /\ MatchCount(tx_text) >= 2) =>
        tx_blocks = SelectSeq(TrimmedSpans(tx_text), OverFifty)

\* a text of two matches has been split: the span of exactly 50 characters
\* is discarded, and the span of 52 characters is returned trimmed to 51
C13_Witness ==
    /\ SplitReturned
    /\ MatchCount(tx_text) >= 2
    /\ \E k \in 1..MatchCount(tx_text) :
           /\ Len(RawSpan(tx_text, k)) = 50
           /\ RawSpan(tx_text, k) \notin Range(tx_blocks)
    /\ \E k \in 1..MatchCount(tx_text) :
           /\ Len(RawSpan(tx_text, k)) = 52
           /\ Len(strip(RawSpan(tx_text, k))) = 51
           /\ tx_blocks = << strip(RawSpan(tx_text, k)) >>

=============================================================================
